---- MODULE Spec2Model ----
(***************************************************************************)
(* Model of the hotword detection engine (lib/engine.py) and of the parts  *)
(* of the embedding backend it relies on (lib/audio_processing.py).        *)
(*                                                                         *)
(* Scores and thresholds are fixed-point numbers in thousandths: 700 is    *)
(* 0.7, 1000 is 1.0 and the debounce sentinel 0.001 is 1.  Wall-clock time *)
(* (time.time()) is an integer number of ticks.  The neural backend is     *)
(* opaque: the raw score model.scoreVector yields for a frame and a        *)
(* detector's reference set is an input of the call.                       *)
(***************************************************************************)
EXTENDS Integers, Sequences, FiniteSets, TLC

VARIABLES
    now,        \* wall clock read by current_time_in_sec()
    detectors,  \* the HotwordDetector objects, in construction order
    multi,      \* the MultiHotwordDetector object (or NoObject)
    op,         \* the call in progress / just returned, with its inputs
    result,     \* what that call returned or raised
    calls,      \* the backend / detector calls that call made, in order
    lastMatch   \* history: per detector, time of its last scoreFrame match

vars == <<now, detectors, multi, op, result, calls, lastMatch>>

----------------------------------------------------------------------------
(* Bounds of the model *)

MaxTime == 4
FrameLen == 3
GateLen == 2
MaxDetectors == 2

(* Program constants *)

Sentinel == 1
ScoreOne == 1000
MinEmbeddings == 3

Samples == {-1, 0, 1, 5}
Frames == [1..FrameLen -> Samples]
RawScores == {0, 600, 700, 750, 850}
Thresholds == {1, 700, 800}
RelaxationTimes == {0, 2}

NoTime == 0 - 1
NoScore == 0 - 1
NoObject == [kind |-> "none"]
Idle == [name |-> "idle"]

----------------------------------------------------------------------------
(* numpy floating point values, as far as the voice-activity gate needs    *)
(* them: a finite ratio num/den (den > 0), nan, +inf or -inf.              *)

Fin(n, d) == [kind |-> "fin", num |-> n, den |-> d]
NaN == [kind |-> "nan", num |-> 0, den |-> 1]
PosInf == [kind |-> "pinf", num |-> 1, den |-> 1]
NegInf == [kind |-> "ninf", num |-> -1, den |-> 1]

\* x / m for one sample x and the scalar m (numpy true division: a zero
\* divisor gives nan or an infinity and a warning, never an exception)
TrueDivide(x, m) ==
    IF m > 0 THEN Fin(x, m)
    ELSE IF m < 0 THEN Fin(-x, -m)
    ELSE IF x = 0 THEN NaN
    ELSE IF x > 0 THEN PosInf
    ELSE NegInf

\* a > b on floats: every comparison with nan is false
FloatGT(a, b) ==
    IF a.kind = "nan" \/ b.kind = "nan" THEN FALSE
    ELSE IF a.kind = "pinf" THEN b.kind # "pinf"
    ELSE IF a.kind = "ninf" THEN FALSE
    ELSE IF b.kind = "pinf" THEN FALSE
    ELSE IF b.kind = "ninf" THEN TRUE
    ELSE a.num * b.den > b.num * a.den

\* a == 0 on floats
FloatIsZero(a) == a.kind = "fin" /\ a.num = 0

\* the literal 0.2 of the gate
GateLimit == Fin(1, 5)

\* numpy's ndarray.max() of an integer frame
NpMax(frame) ==
    CHOOSE x \in {frame[i] : i \in 1..Len(frame)} :
        \A i \in 1..Len(frame) : frame[i] <= x

\* Python's builtin max() over a sequence of floats: keeps the first
\* element and replaces it only by an element that compares greater
RECURSIVE PyMaxFrom(_, _, _)
PyMaxFrom(s, i, cur) ==
    IF i > Len(s) THEN cur
    ELSE PyMaxFrom(s, i + 1, IF FloatGT(s[i], cur) THEN s[i] ELSE cur)

PyMax(s) == PyMaxFrom(s, 2, s[1])

Min2(a, b) == IF a < b THEN a ELSE b

\* upperPoint = max((frame / frame.max())[:RATE // 10])
upperPoint(frame) ==
    LET m == NpMax(frame)
        scaled == [i \in 1..Len(frame) |-> TrueDivide(frame[i], m)]
    IN  PyMax(SubSeq(scaled, 1, Min2(GateLen, Len(frame))))

\* The engine reads a frame only through upperPoint (the backend that embeds
\* it is opaque), so the calls are driven with one frame for each value
\* upperPoint takes over Frames.
UpperPoints == {upperPoint(frame) : frame \in Frames}
InputFrames == {CHOOSE frame \in Frames : upperPoint(frame) = u : u \in UpperPoints}

----------------------------------------------------------------------------
(* Reference files and backends *)

\* MODEL_TYPE_MAPPER: model_type tag -> backend class
MODEL_TYPE_MAPPER == [t \in {"resnet_50_arc"} |-> "Resnet50_Arc_loss"]

BackendTypes == {"Resnet50_Arc_loss", "ModelRawBackend"}
ModelTypeTags == {"resnet_50_arc", "other"}

\* a path on disk: nothing there, or a JSON file with a model_type tag and
\* n_embeddings reference embeddings
MissingFile == [exists |-> FALSE, model_type |-> "", n_embeddings |-> 0]
RefFile(tag, n) == [exists |-> TRUE, model_type |-> tag, n_embeddings |-> n]
ReferenceFiles ==
    {MissingFile} \cup
    {RefFile(tag, n) : tag \in ModelTypeTags,
                       n \in MinEmbeddings..(MinEmbeddings + 1)}

Raise(exc) == [kind |-> "raise", exc |-> exc]

ThreeEmbeddingsAccepted(hotword, model, reference_file, threshold, relaxation_time, continuous, t) ==
    IF ~reference_file.exists THEN Raise("AssertionError")
    ELSE IF ~(0 < threshold /\ threshold < ScoreOne)
        THEN Raise("AssertionError")
    ELSE IF ~(reference_file.n_embeddings >= MinEmbeddings)
        THEN Raise("AssertionError")
    ELSE IF reference_file.model_type \notin DOMAIN MODEL_TYPE_MAPPER
        THEN Raise("KeyError")
    ELSE IF ~(MODEL_TYPE_MAPPER[reference_file.model_type] = model)
        THEN Raise("AssertionError")
    ELSE [kind |-> "HotwordDetector",
          hotword |-> hotword,
          model |-> model,
          n_embeddings |-> reference_file.n_embeddings,
          threshold |-> threshold,
          continuous |-> continuous,
          relaxation_time |-> relaxation_time,
          last_activation_time |-> t]

\* HotwordDetector.__init__: the object built at time t, or the exception
StartsArmed(hotword, model, reference_file, threshold, relaxation_time, continuous, t) ==
    IF ~reference_file.exists THEN Raise("AssertionError")
    ELSE IF ~(0 < threshold /\ threshold < ScoreOne)
        THEN Raise("AssertionError")
    ELSE IF ~(reference_file.n_embeddings > MinEmbeddings)
        THEN Raise("AssertionError")
    ELSE IF reference_file.model_type \notin DOMAIN MODEL_TYPE_MAPPER
        THEN Raise("KeyError")
    ELSE IF ~(MODEL_TYPE_MAPPER[reference_file.model_type] = model)
        THEN Raise("AssertionError")
    ELSE [kind |-> "HotwordDetector",
          hotword |-> hotword,
          model |-> model,
          n_embeddings |-> reference_file.n_embeddings,
          threshold |-> threshold,
          continuous |-> continuous,
          relaxation_time |-> relaxation_time,
          last_activation_time |-> t - relaxation_time]

HotwordDetector_init(hotword, model, reference_file, threshold, relaxation_time, continuous, t) ==
    IF ~reference_file.exists THEN Raise("AssertionError")
    ELSE IF ~(0 < threshold /\ threshold < ScoreOne)
        THEN Raise("AssertionError")
    ELSE IF ~(reference_file.n_embeddings > MinEmbeddings)
        THEN Raise("AssertionError")
    ELSE IF reference_file.model_type \notin DOMAIN MODEL_TYPE_MAPPER
        THEN Raise("KeyError")
    ELSE IF ~(MODEL_TYPE_MAPPER[reference_file.model_type] = model)
        THEN Raise("AssertionError")
    ELSE [kind |-> "HotwordDetector",
          hotword |-> hotword,
          model |-> model,
          n_embeddings |-> reference_file.n_embeddings,
          threshold |-> threshold,
          continuous |-> continuous,
          relaxation_time |-> relaxation_time,
          last_activation_time |-> t]

----------------------------------------------------------------------------
(* HotwordDetector scoring *)

\* HotwordDetector.scoreVector, given the score the backend computed for
\* the embedding and the clock value read: the value returned and the
\* detector afterwards
NoDebounce(self, score, current_time) ==
    IF score > self.threshold
    THEN [ret |-> score,
          self |-> [self EXCEPT !.last_activation_time = current_time]]
    ELSE [ret |-> score, self |-> self]

ActivateAtThreshold(self, score, current_time) ==
    IF self.continuous /\ score > self.threshold
       /\ (current_time - self.last_activation_time) < self.relaxation_time
    THEN [ret |-> Sentinel, self |-> self]
    ELSE IF score >= self.threshold
    THEN [ret |-> score,
          self |-> [self EXCEPT !.last_activation_time = current_time]]
    ELSE [ret |-> score, self |-> self]

HotwordDetector_scoreVector(self, score, current_time) ==
    IF self.continuous /\ score > self.threshold
       /\ (current_time - self.last_activation_time) < self.relaxation_time
    THEN [ret |-> Sentinel, self |-> self]
    ELSE IF score > self.threshold
    THEN [ret |-> score,
          self |-> [self EXCEPT !.last_activation_time = current_time]]
    ELSE [ret |-> score, self |-> self]

AudioToVectorCall == [fn |-> "audioToVector", detector |-> 0, ret |-> NoScore]
ScoreVectorCall(d, ret) == [fn |-> "scoreVector", detector |-> d, ret |-> ret]

\* HotwordDetector.scoreFrame for detector number d: the value returned (or
\* the exception raised), the detector afterwards and the calls made.
\* embeds: model.audioToVector returns an embedding for the frame rather
\* than raising (a wrong frame length, a failing inference session)
GateInverted(self, d, frame, unsafe, embeds, score, current_time) ==
    IF unsafe /\ FloatGT(upperPoint(frame), GateLimit)
    THEN [ret |-> NoObject, self |-> self, calls |-> <<>>]
    ELSE IF ~embeds
    THEN [ret |-> Raise("InferenceError"), self |-> self, calls |-> <<AudioToVectorCall>>]
    ELSE LET sv == HotwordDetector_scoreVector(self, score, current_time)
         IN  [ret |-> [kind |-> "dict",
                       match |-> sv.ret >= self.threshold,
                       confidence |-> sv.ret],
              self |-> sv.self,
              calls |-> <<AudioToVectorCall, ScoreVectorCall(d, sv.ret)>>]

MatchStrict(self, d, frame, unsafe, embeds, score, current_time) ==
    IF ~unsafe /\ FloatGT(upperPoint(frame), GateLimit)
    THEN [ret |-> NoObject, self |-> self, calls |-> <<>>]
    ELSE IF ~embeds
    THEN [ret |-> Raise("InferenceError"), self |-> self, calls |-> <<AudioToVectorCall>>]
    ELSE LET sv == HotwordDetector_scoreVector(self, score, current_time)
         IN  [ret |-> [kind |-> "dict",
                       match |-> sv.ret > self.threshold,
                       confidence |-> sv.ret],
              self |-> sv.self,
              calls |-> <<AudioToVectorCall, ScoreVectorCall(d, sv.ret)>>]

SwallowsEmbeddingError(self, d, frame, unsafe, embeds, score, current_time) ==
    IF ~unsafe /\ FloatGT(upperPoint(frame), GateLimit)
    THEN [ret |-> NoObject, self |-> self, calls |-> <<>>]
    ELSE IF ~embeds
    THEN [ret |-> [kind |-> "dict", match |-> FALSE, confidence |-> 0],
          self |-> self, calls |-> <<AudioToVectorCall>>]
    ELSE LET sv == HotwordDetector_scoreVector(self, score, current_time)
         IN  [ret |-> [kind |-> "dict",
                       match |-> sv.ret >= self.threshold,
                       confidence |-> sv.ret],
              self |-> sv.self,
              calls |-> <<AudioToVectorCall, ScoreVectorCall(d, sv.ret)>>]

HotwordDetector_scoreFrame(self, d, frame, unsafe, embeds, score, current_time) ==
    IF ~unsafe /\ FloatGT(upperPoint(frame), GateLimit)
    THEN [ret |-> NoObject, self |-> self, calls |-> <<>>]
    ELSE IF ~embeds
    THEN [ret |-> Raise("InferenceError"), self |-> self, calls |-> <<AudioToVectorCall>>]
    ELSE LET sv == HotwordDetector_scoreVector(self, score, current_time)
         IN  [ret |-> [kind |-> "dict",
                       match |-> sv.ret >= self.threshold,
                       confidence |-> sv.ret],
              self |-> sv.self,
              calls |-> <<AudioToVectorCall, ScoreVectorCall(d, sv.ret)>>]

----------------------------------------------------------------------------
(* Actions *)

\* what the backend would score for a frame: no score at all when
\* audioToVector raises for it
BackendScores(embeds, S) == IF embeds THEN S ELSE {NoScore}

\* wall-clock time passes between two calls
Tick ==
    /\ op = Idle
    /\ now < MaxTime
    /\ now' = now + 1
    /\ UNCHANGED <<detectors, multi, op, result, calls, lastMatch>>

\* the caller has consumed the value returned and goes round its loop
Return ==
    /\ op # Idle
    /\ op' = Idle
    /\ result' = NoObject
    /\ calls' = <<>>
    /\ UNCHANGED <<now, detectors, multi, lastMatch>>

SharedTimerScoreVector(d, score) ==
    /\ op = Idle
    /\ LET r == HotwordDetector_scoreVector(detectors[d], score, now)
       IN  /\ detectors' = [i \in 1..Len(detectors) |->
                               [detectors[i] EXCEPT !.last_activation_time =
                                                       r.self.last_activation_time]]
           /\ result' = [kind |-> "float", value |-> r.ret]
           /\ calls' = <<>>
    /\ op' = [name |-> "scoreVector", detector |-> d, score |-> score]
    /\ UNCHANGED <<now, multi, lastMatch>>

\* detector.scoreVector(embedding)
ScoreVector(d, score) ==
    /\ op = Idle
    /\ LET r == HotwordDetector_scoreVector(detectors[d], score, now)
       IN  /\ detectors' = [detectors EXCEPT ![d] = r.self]
           /\ result' = [kind |-> "float", value |-> r.ret]
           /\ calls' = <<>>
    /\ op' = [name |-> "scoreVector", detector |-> d, score |-> score]
    /\ UNCHANGED <<now, multi, lastMatch>>

\* detector.scoreFrame(frame, unsafe)
ScoreFrame(d, frame, unsafe, embeds, score) ==
    /\ op = Idle
    /\ LET r == HotwordDetector_scoreFrame(detectors[d], d, frame, unsafe,
                                           embeds, score, now)
       IN  /\ detectors' = [detectors EXCEPT ![d] = r.self]
           /\ result' = r.ret
           /\ calls' = r.calls
           /\ op' = [name |-> "scoreFrame", detector |-> d,
                     upperPoint |-> upperPoint(frame), unsafe |-> unsafe,
                     embeds |-> (r.calls = <<>> \/ embeds),
                     score |-> IF Len(r.calls) < 2 THEN NoScore ELSE score]
           /\ lastMatch' =
                IF r.ret.kind = "dict" /\ r.ret.match
                THEN [lastMatch EXCEPT ![d] = now]
                ELSE lastMatch
    /\ UNCHANGED <<now, multi>>

----------------------------------------------------------------------------
(* One HotwordDetector, constructed at time 0, driven by a caller *)

Init ==
    /\ now = 0
    /\ \E threshold \in Thresholds, relaxation_time \in RelaxationTimes,
          continuous \in BOOLEAN :
         detectors = <<HotwordDetector_init("ruby", "Resnet50_Arc_loss",
                           RefFile("resnet_50_arc", MinEmbeddings + 1),
                           threshold, relaxation_time, continuous, 0)>>
    /\ multi = NoObject
    /\ op = Idle
    /\ result = NoObject
    /\ calls = <<>>
    /\ lastMatch = <<NoTime>>

Next ==
    \/ Tick
    \/ Return
    \/ \E d \in 1..Len(detectors), score \in RawScores : ScoreVector(d, score)
    \/ \E d \in 1..Len(detectors), frame \in InputFrames, unsafe \in BOOLEAN,
          embeds \in BOOLEAN :
         \E score \in BackendScores(embeds, RawScores) :
            ScoreFrame(d, frame, unsafe, embeds, score)

Spec == Init /\ [][Next]_vars

----------------------------------------------------------------------------
(* Claims about one HotwordDetector *)

\* the state of a detector at clock value t: inside the refractory period
Cooling(self, t) == (t - self.last_activation_time) < self.relaxation_time

\* a call (o, with result r and calls c) that ran the detector's scoreVector,
\* directly or from scoreFrame, and the value scoreVector returned
RanScoreVector(o) ==
    \/ o.name = "scoreVector"
    \/ o.name = "scoreFrame" /\ o.score # NoScore

ScoreVectorReturned(o, r, c) ==
    IF o.name = "scoreVector" THEN r.value ELSE c[2].ret

\* C1: duplicate triggers are suppressed: for a detector with
\* continuous=true and relaxationTime > 0, a scoreFrame call that returns
\* match=true is never less than relaxationTime after an earlier scoreFrame
\* call of that detector that returned match=true.
C1_NoDuplicateTriggers ==
    [][\A d \in 1..Len(detectors) :
          (/\ op'.name = "scoreFrame"
           /\ op'.detector = d
           /\ result'.kind = "dict"
           /\ result'.match
           /\ detectors[d].continuous
           /\ detectors[d].relaxation_time > 0
           /\ lastMatch[d] # NoTime)
          => now' - lastMatch[d] >= detectors[d].relaxation_time]_vars

\* C2: scoreVector returns the sentinel 0.001 when continuous is true, the
\* raw score is strictly above threshold and the detector is Cooling at the
\* time of the call; in every other case it returns the raw score.
C2_SentinelExactlyWhenSuppressed ==
    [][RanScoreVector(op') =>
          LET self == detectors[op'.detector]
              suppressed == /\ self.continuous
                            /\ op'.score > self.threshold
                            /\ Cooling(self, now)
          IN  ScoreVectorReturned(op', result', calls') =
                 IF suppressed THEN Sentinel ELSE op'.score]_vars

\* C2 witness: a second above-threshold call, made inside the refractory
\* period of a trigger that itself happened once the detector was Armed,
\* has returned the sentinel.
C2_Witness ==
    /\ op.name = "scoreVector"
    /\ detectors[op.detector].continuous
    /\ op.score > detectors[op.detector].threshold
    /\ op.score > Sentinel
    /\ detectors[op.detector].last_activation_time > 0
    /\ result.value = Sentinel

\* C3: scoreVector sets lastActivationTimestamp to the current time when the
\* raw score is strictly above threshold and the call is not suppressed, and
\* leaves it (and every other field) unchanged otherwise.
C3_TimestampUpdate ==
    [][RanScoreVector(op') =>
          LET self == detectors[op'.detector]
              suppressed == /\ self.continuous
                            /\ op'.score > self.threshold
                            /\ Cooling(self, now)
              activates == op'.score > self.threshold /\ ~suppressed
          IN  detectors'[op'.detector] =
                 IF activates
                 THEN [self EXCEPT !.last_activation_time = now]
                 ELSE self]_vars

\* C3 witness: an above-threshold call arrived during Cooling and the
\* timestamp still is the older one.
C3_Witness ==
    /\ op.name = "scoreVector"
    /\ detectors[op.detector].continuous
    /\ op.score > detectors[op.detector].threshold
    /\ detectors[op.detector].last_activation_time < now
    /\ now - detectors[op.detector].last_activation_time
         < detectors[op.detector].relaxation_time

\* C4: with unsafe=false a frame whose upperPoint exceeds 0.2 makes
\* scoreFrame return None without calling audioToVector or scoreVector and
\* without touching the detector; with unsafe=true scoreFrame never returns
\* None.
C4_VoiceActivityGate ==
    [][op'.name = "scoreFrame" =>
          /\ (~op'.unsafe /\ FloatGT(op'.upperPoint, GateLimit))
                => /\ result' = NoObject
                   /\ calls' = <<>>
                   /\ detectors' = detectors
          /\ op'.unsafe => result' # NoObject]_vars

\* C4 witness: a frame over the gate limit was refused.
C4_Witness ==
    /\ op.name = "scoreFrame"
    /\ ~op.unsafe
    /\ FloatGT(op.upperPoint, GateLimit)
    /\ result = NoObject

\* C5: an ungated scoreFrame returns confidence = what the detector's
\* scoreVector returned and match = (confidence >= threshold); so match is
\* true whenever that call changed lastActivationTimestamp.
C5_ScoreFrameResult ==
    [][(op'.name = "scoreFrame" /\ result'.kind = "dict") =>
          LET self == detectors[op'.detector]
          IN  /\ Len(calls') = 2
              /\ calls'[1].fn = "audioToVector"
              /\ calls'[2].fn = "scoreVector"
              /\ calls'[2].detector = op'.detector
              /\ result'.confidence = calls'[2].ret
              /\ result'.match = (result'.confidence >= self.threshold)
              /\ (detectors'[op'.detector].last_activation_time
                     # self.last_activation_time) => result'.match]_vars

\* C5 witness: a scoreFrame call that triggered the detector.
C5_Witness ==
    /\ op.name = "scoreFrame"
    /\ result.kind = "dict"
    /\ result.match
    /\ result.confidence = op.score
    /\ detectors[op.detector].last_activation_time = now
    /\ now > 0

----------------------------------------------------------------------------
(* MultiHotwordDetector *)

\* MultiHotwordDetector.__init__ over the objects passed; the collection
\* keeps references to the detectors: their positions in `detectors`
\* an element of a detector_collection argument: a reference to detectors[ref],
\* or to an object of another type
DetectorRef(i) == [kind |-> "HotwordDetector", ref |-> i]
OtherObject == [kind |-> "str", ref |-> 0]

SingleDetectorAccepted(detector_collection, model, continuous) ==
    IF ~(Len(detector_collection) > 0) THEN Raise("AssertionError")
    ELSE IF \E i \in 1..Len(detector_collection) : detector_collection[i].kind # "HotwordDetector"
        THEN Raise("AssertionError")
    ELSE [kind |-> "MultiHotwordDetector",
          model |-> model,
          detector_collection |-> [i \in 1..Len(detector_collection) |-> detector_collection[i].ref],
          continous |-> continuous]

MultiHotwordDetector_init(detector_collection, model, continuous) ==
    IF ~(Len(detector_collection) > 1) THEN Raise("AssertionError")
    ELSE IF \E i \in 1..Len(detector_collection) : detector_collection[i].kind # "HotwordDetector"
        THEN Raise("AssertionError")
    ELSE [kind |-> "MultiHotwordDetector",
          model |-> model,
          detector_collection |-> [i \in 1..Len(detector_collection) |-> detector_collection[i].ref],
          continous |-> continuous]

\* the methods class HotwordDetector defines
HotwordDetectorMethods == {"__init__", "__repr__", "__crossedRelaxationTime", "scoreVector", "scoreFrame"}

\* a (detector, score) pair; detector 0 is None
MatchInfo(d, score) == [kind |-> "tuple", detector |-> d, score |-> score]

\* the loop of findBestMatch from position i on; st holds the detectors,
\* best_match_detector, best_match_score and the calls made so far
RECURSIVE LatestWinsLoop(_, _, _, _, _)
LatestWinsLoop(collection, i, st, scores, current_time) ==
    IF i > Len(collection) THEN st
    ELSE LET d == collection[i]
             sv == HotwordDetector_scoreVector(st.dets[d], scores[d], current_time)
             st1 == [st EXCEPT !.dets[d] = sv.self,
                               !.calls = Append(@, ScoreVectorCall(d, sv.ret))]
         IN  IF sv.ret < st1.dets[d].threshold
             THEN LatestWinsLoop(collection, i + 1, st1, scores, current_time)
             ELSE IF sv.ret >= st1.best_match_score
             THEN LatestWinsLoop(collection, i + 1,
                      [st1 EXCEPT !.best_match_score = sv.ret,
                                  !.best_match_detector = d],
                      scores, current_time)
             ELSE LatestWinsLoop(collection, i + 1, st1, scores, current_time)

RECURSIVE EmbedsPerDetectorLoop(_, _, _, _, _)
EmbedsPerDetectorLoop(collection, i, st, scores, current_time) ==
    IF i > Len(collection) THEN st
    ELSE LET d == collection[i]
             sv == HotwordDetector_scoreVector(st.dets[d], scores[d], current_time)
             st1 == [st EXCEPT !.dets[d] = sv.self,
                               !.calls = IF i = 1
                                         THEN Append(@, ScoreVectorCall(d, sv.ret))
                                         ELSE Append(Append(@, AudioToVectorCall),
                                                     ScoreVectorCall(d, sv.ret))]
         IN  IF sv.ret < st1.dets[d].threshold
             THEN EmbedsPerDetectorLoop(collection, i + 1, st1, scores, current_time)
             ELSE IF sv.ret > st1.best_match_score
             THEN EmbedsPerDetectorLoop(collection, i + 1,
                      [st1 EXCEPT !.best_match_score = sv.ret,
                                  !.best_match_detector = d],
                      scores, current_time)
             ELSE EmbedsPerDetectorLoop(collection, i + 1, st1, scores, current_time)

RECURSIVE findBestMatch_loop(_, _, _, _, _)
findBestMatch_loop(collection, i, st, scores, current_time) ==
    IF i > Len(collection) THEN st
    ELSE LET d == collection[i]
             sv == HotwordDetector_scoreVector(st.dets[d], scores[d], current_time)
             st1 == [st EXCEPT !.dets[d] = sv.self,
                               !.calls = Append(@, ScoreVectorCall(d, sv.ret))]
         IN  IF sv.ret < st1.dets[d].threshold
             THEN findBestMatch_loop(collection, i + 1, st1, scores, current_time)
             ELSE IF sv.ret > st1.best_match_score
             THEN findBestMatch_loop(collection, i + 1,
                      [st1 EXCEPT !.best_match_score = sv.ret,
                                  !.best_match_detector = d],
                      scores, current_time)
             ELSE findBestMatch_loop(collection, i + 1, st1, scores, current_time)

OnlyWinnerCools(self, dets, frame, unsafe, embeds, scores, current_time) ==
    IF ~embeds
    THEN [ret |-> Raise("InferenceError"), dets |-> dets, calls |-> <<AudioToVectorCall>>]
    ELSE
    LET st0 == [dets |-> dets,
                best_match_detector |-> 0,
                best_match_score |-> 0,
                calls |-> <<AudioToVectorCall>>]
        st == findBestMatch_loop(self.detector_collection, 1, st0, scores, current_time)
    IN  [ret |-> MatchInfo(st.best_match_detector, st.best_match_score),
         dets |-> [i \in 1..Len(dets) |->
                      IF i = st.best_match_detector THEN st.dets[i] ELSE dets[i]],
         calls |-> st.calls]

\* MultiHotwordDetector.findBestMatch: its gate is inside a string literal
\* and never runs, so frame and unsafe do not reach any computation
MultiHotwordDetector_findBestMatch(self, dets, frame, unsafe, embeds, scores, current_time) ==
    IF ~embeds
    THEN [ret |-> Raise("InferenceError"), dets |-> dets, calls |-> <<AudioToVectorCall>>]
    ELSE
    LET st0 == [dets |-> dets,
                best_match_detector |-> 0,
                best_match_score |-> 0,
                calls |-> <<AudioToVectorCall>>]
        st == findBestMatch_loop(self.detector_collection, 1, st0, scores, current_time)
    IN  [ret |-> MatchInfo(st.best_match_detector, st.best_match_score),
         dets |-> st.dets,
         calls |-> st.calls]

\* MultiHotwordDetector.findAllMatches: past the gate the first iteration
\* of the loop looks up detector.getMatchScoreVector, which HotwordDetector
\* does not define
SilenceNotGated(self, dets, frame, unsafe, embeds, scores, current_time) ==
    IF self.continous /\ ~unsafe /\ FloatGT(upperPoint(frame), GateLimit)
    THEN [ret |-> MatchInfo(0, NoScore), dets |-> dets, calls |-> <<>>]
    ELSE IF ~embeds
    THEN [ret |-> Raise("InferenceError"), dets |-> dets, calls |-> <<AudioToVectorCall>>]
    ELSE IF Len(self.detector_collection) = 0
    THEN [ret |-> [kind |-> "list", items |-> <<>>], dets |-> dets, calls |-> <<AudioToVectorCall>>]
    ELSE [ret |-> Raise("AttributeError"), dets |-> dets, calls |-> <<AudioToVectorCall>>]

MultiHotwordDetector_findAllMatches(self, dets, frame, unsafe, embeds, scores, current_time) ==
    IF self.continous /\ ~unsafe
       /\ (FloatGT(upperPoint(frame), GateLimit) \/ FloatIsZero(upperPoint(frame)))
    THEN [ret |-> MatchInfo(0, NoScore), dets |-> dets, calls |-> <<>>]
    ELSE IF ~embeds
    THEN [ret |-> Raise("InferenceError"), dets |-> dets, calls |-> <<AudioToVectorCall>>]
    ELSE IF Len(self.detector_collection) = 0
    THEN [ret |-> [kind |-> "list", items |-> <<>>], dets |-> dets, calls |-> <<AudioToVectorCall>>]
    ELSE IF "getMatchScoreVector" \notin HotwordDetectorMethods
    THEN [ret |-> Raise("AttributeError"), dets |-> dets, calls |-> <<AudioToVectorCall>>]
    ELSE [ret |-> Raise("NotModelled"), dets |-> dets, calls |-> <<AudioToVectorCall>>]

\* multi.findBestMatch(frame, unsafe)
FindBestMatch(frame, unsafe, embeds, scores) ==
    /\ op = Idle
    /\ multi.kind = "MultiHotwordDetector"
    /\ LET r == MultiHotwordDetector_findBestMatch(multi, detectors, frame, unsafe, embeds, scores, now)
       IN  /\ detectors' = r.dets
           /\ result' = r.ret
           /\ calls' = r.calls
    /\ op' = [name |-> "findBestMatch", upperPoint |-> upperPoint(frame),
              unsafe |-> unsafe, embeds |-> embeds,
              scores |-> scores]
    /\ UNCHANGED <<now, multi, lastMatch>>

\* multi.findAllMatches(frame, unsafe)
FindAllMatches(frame, unsafe, embeds, scores) ==
    /\ op = Idle
    /\ multi.kind = "MultiHotwordDetector"
    /\ LET r == MultiHotwordDetector_findAllMatches(multi, detectors, frame, unsafe, embeds, scores, now)
       IN  /\ detectors' = r.dets
           /\ result' = r.ret
           /\ calls' = r.calls
    /\ op' = [name |-> "findAllMatches", upperPoint |-> upperPoint(frame),
              unsafe |-> unsafe, embeds |-> embeds,
              scores |-> scores]
    /\ UNCHANGED <<now, multi, lastMatch>>

----------------------------------------------------------------------------
(* A MultiHotwordDetector over the detectors "ruby" and "max", all built   *)
(* at time 0, driven by a caller                                           *)

Hotwords == <<"ruby", "max">>
MultiRawScores == {600, 750, 850}
MultiRelaxationTimes == RelaxationTimes \ {0}

DetectorConfigs == [threshold : Thresholds, relaxation_time : MultiRelaxationTimes, continuous : BOOLEAN]

InitMulti ==
    /\ now = 0
    /\ \E cfg \in [1..Len(Hotwords) -> DetectorConfigs] :
         detectors = [i \in 1..Len(Hotwords) |->
                         HotwordDetector_init(Hotwords[i], "Resnet50_Arc_loss",
                             RefFile("resnet_50_arc", MinEmbeddings + 1),
                             cfg[i].threshold, cfg[i].relaxation_time,
                             cfg[i].continuous, 0)]
    /\ \E continuous \in BOOLEAN :
         multi = MultiHotwordDetector_init([i \in 1..Len(Hotwords) |-> DetectorRef(i)],
                                           "Resnet50_Arc_loss", continuous)
    /\ op = Idle
    /\ result = NoObject
    /\ calls = <<>>
    /\ lastMatch = [i \in 1..Len(Hotwords) |-> NoTime]

NextMulti ==
    \/ Tick
    \/ Return
    \/ \E frame \in InputFrames, unsafe \in BOOLEAN, embeds \in BOOLEAN :
         \E scores \in [1..Len(detectors) -> BackendScores(embeds, MultiRawScores)] :
            FindBestMatch(frame, unsafe, embeds, scores)
    \/ \E frame \in InputFrames, unsafe \in BOOLEAN, embeds \in BOOLEAN :
         \E scores \in [1..Len(detectors) -> BackendScores(embeds, MultiRawScores)] :
            FindAllMatches(frame, unsafe, embeds, scores)

SpecMulti == InitMulti /\ [][NextMulti]_vars

----------------------------------------------------------------------------
(* Claims about the MultiHotwordDetector *)

\* what detector number i's scoreVector returned during the call
Returned(c, i) == c[i + 1].ret

\* the call scored every member once, in registration order, after one
\* audioToVector
ScoredAll(c) ==
    /\ Len(c) = Len(multi.detector_collection) + 1
    /\ c[1].fn = "audioToVector"
    /\ \A i \in 1..Len(multi.detector_collection) :
          c[i + 1].fn = "scoreVector" /\ c[i + 1].detector = multi.detector_collection[i]

\* members whose returned score is not below their own threshold
Qualifying(c) ==
    {i \in 1..Len(multi.detector_collection) : Returned(c, i) >= detectors[i].threshold}

\* C6: findBestMatch returns (d, s) with s the value d.scoreVector returned,
\* s not below d's threshold, s the greatest value among the members whose
\* score is not below their own threshold and d the earliest-registered
\* member with that value; (None, 0.0) when no member qualifies.  With
\* Armed detectors ruby (0.7) and max (0.8) and raw scores 0.75 and 0.6 it
\* returns (ruby, 0.75).
C6_BestMatch ==
    [][(op'.name = "findBestMatch" /\ op'.embeds) =>
          LET Q == Qualifying(calls')
          IN  /\ ScoredAll(calls')
              /\ \A i \in 1..Len(detectors) :
                    Returned(calls', i) =
                       HotwordDetector_scoreVector(detectors[i], op'.scores[i], now).ret
              /\ Q = {} => result' = MatchInfo(0, 0)
              /\ Q # {} =>
                    /\ result'.detector \in Q
                    /\ result'.score = Returned(calls', result'.detector)
                    /\ \A i \in Q : Returned(calls', i) <= result'.score
                    /\ \A i \in Q : Returned(calls', i) = result'.score
                                       => result'.detector <= i
              /\ (/\ detectors[1].threshold = 700
                  /\ detectors[2].threshold = 800
                  /\ op'.scores = <<750, 600>>
                  /\ ~Cooling(detectors[1], now))
                    => result' = MatchInfo(1, 750)]_vars

\* C6 witness: the scenario of ruby (0.7) and max (0.8) with raw scores 0.75
\* and 0.6, ruby triggering.
C6_Witness ==
    /\ op.name = "findBestMatch"
    /\ detectors[1].hotword = "ruby" /\ detectors[1].threshold = 700
    /\ detectors[2].hotword = "max" /\ detectors[2].threshold = 800
    /\ detectors[1].continuous /\ detectors[2].continuous
    /\ op.scores = <<750, 600>>
    /\ detectors[1].last_activation_time = now
    /\ now > 0
    /\ result = MatchInfo(1, 750)

\* C7: with unsafe=false, findBestMatch does not embed or score a frame whose
\* upperPoint exceeds 0.2 and returns no detector.
C7_BestMatchGate ==
    (/\ op.name = "findBestMatch"
     /\ ~op.unsafe
     /\ FloatGT(op.upperPoint, GateLimit))
    => calls = <<>> /\ result.detector = 0

\* the frame of a findAllMatches call is refused by its gate policy
OverOrSilent(u) == FloatGT(u, GateLimit) \/ FloatIsZero(u)

\* C8: for a frame that passes the gate, findAllMatches returns a list
\* holding exactly the members whose score is not below their own
\* threshold, each once with its score, in ascending order of score.
C8_AllMatches ==
    (/\ op.name = "findAllMatches"
     /\ op.embeds
     /\ ~(multi.continous /\ ~op.unsafe /\ OverOrSilent(op.upperPoint)))
    => /\ result.kind = "list"
       /\ \A i \in 1..Len(detectors) :
             (op.scores[i] >= detectors[i].threshold)
                <=> (\E k \in 1..Len(result.items) :
                        result.items[k] = MatchInfo(i, op.scores[i]))
       /\ \A k \in 1..Len(result.items) :
             /\ result.items[k].detector \in 1..Len(detectors)
             /\ \A j \in 1..Len(result.items) :
                   /\ (j < k => result.items[j].score <= result.items[k].score)
                   /\ (j # k => result.items[j].detector # result.items[k].detector)

----------------------------------------------------------------------------
(* Construction of detectors by a caller *)

CtorThresholds == {0, 1, 500, 999, 1000}
CtorRelaxationTimes == {0 - 1, 2}

\* HotwordDetector(hotword, model, reference_file, threshold, relaxation_time, continuous)
NewHotwordDetector(hotword, model, reference_file, threshold, relaxation_time, continuous) ==
    /\ op = Idle
    /\ Len(detectors) < MaxDetectors
    /\ LET r == HotwordDetector_init(hotword, model, reference_file, threshold, relaxation_time, continuous, now)
       IN  /\ result' = r
           /\ detectors' = IF r.kind = "HotwordDetector"
                           THEN Append(detectors, r) ELSE detectors
           /\ lastMatch' = IF r.kind = "HotwordDetector"
                           THEN Append(lastMatch, NoTime) ELSE lastMatch
    /\ op' = [name |-> "HotwordDetector", model |-> model,
              reference_file |-> reference_file, threshold |-> threshold,
              relaxation_time |-> relaxation_time, continuous |-> continuous]
    /\ calls' = <<>>
    /\ UNCHANGED <<now, multi>>

InitConstruct ==
    /\ now = 0
    /\ detectors = <<>>
    /\ multi = NoObject
    /\ op = Idle
    /\ result = NoObject
    /\ calls = <<>>
    /\ lastMatch = <<>>

NextConstruct ==
    \/ Tick
    \/ Return
    \/ \E model \in BackendTypes, reference_file \in ReferenceFiles,
          threshold \in CtorThresholds, relaxation_time \in CtorRelaxationTimes,
          continuous \in BOOLEAN :
         NewHotwordDetector("ruby", model, reference_file, threshold, relaxation_time, continuous)

SpecConstruct == InitConstruct /\ [][NextConstruct]_vars

\* C10: constructing a HotwordDetector fails, producing no detector, if the
\* reference file does not exist, if threshold is not strictly between 0 and
\* 1, if the file holds fewer than 4 embeddings, or if its model_type tag
\* does not map to the type of the backend supplied; otherwise it succeeds.
C10_ConstructionChecks ==
    [][op'.name = "HotwordDetector" =>
          LET f == op'.reference_file
              bad == \/ ~f.exists
                     \/ ~(op'.threshold > 0 /\ op'.threshold < 1000)
                     \/ f.n_embeddings < 4
                     \/ f.model_type # "resnet_50_arc"
                     \/ op'.model # "Resnet50_Arc_loss"
          IN  /\ bad => result'.kind = "raise" /\ detectors' = detectors
              /\ ~bad => /\ result'.kind = "HotwordDetector"
                         /\ result'.threshold = op'.threshold
                         /\ detectors' = Append(detectors, result')]_vars

\* C10 witness: a file with exactly 3 embeddings was refused although every
\* other argument was valid.
C10_Witness ==
    /\ op.name = "HotwordDetector"
    /\ op.reference_file = RefFile("resnet_50_arc", 3)
    /\ op.threshold = 500
    /\ op.model = "Resnet50_Arc_loss"
    /\ result.kind = "raise"
    /\ detectors = <<>>

\* C11: relaxationTime must be >= 0: constructing a HotwordDetector with a
\* negative relaxationTime fails, so no constructed detector has
\* relaxationTime < 0.
C11_NegativeRelaxationRejected ==
    /\ (op.name = "HotwordDetector" /\ op.relaxation_time < 0)
          => result.kind = "raise"
    /\ \A i \in 1..Len(detectors) : detectors[i].relaxation_time >= 0

\* ---- construction of a MultiHotwordDetector ----
MaxCollection == 3

RECURSIVE SeqsUpTo(_, _)
SeqsUpTo(S, n) ==
    IF n = 0 THEN {<<>>}
    ELSE LET shorter == SeqsUpTo(S, n - 1)
         IN  shorter \cup {Append(q, x) : q \in {r \in shorter : Len(r) = n - 1}, x \in S}

CollectionObjects == {DetectorRef(i) : i \in 1..MaxDetectors} \cup {OtherObject}
Collections == SeqsUpTo(CollectionObjects, MaxCollection)

NewMultiHotwordDetector(detector_collection, continuous) ==
    /\ op = Idle
    /\ LET r == MultiHotwordDetector_init(detector_collection, "Resnet50_Arc_loss", continuous)
       IN  /\ result' = r
           /\ multi' = IF r.kind = "MultiHotwordDetector" THEN r ELSE multi
    /\ op' = [name |-> "MultiHotwordDetector",
              detector_collection |-> detector_collection, continuous |-> continuous]
    /\ calls' = <<>>
    /\ UNCHANGED <<now, detectors, lastMatch>>

InitConstructMulti ==
    /\ now = 0
    /\ detectors = [i \in 1..MaxDetectors |->
                       HotwordDetector_init("ruby", "Resnet50_Arc_loss",
                           RefFile("resnet_50_arc", MinEmbeddings + 1), 700, 2, TRUE, 0)]
    /\ multi = NoObject
    /\ op = Idle
    /\ result = NoObject
    /\ calls = <<>>
    /\ lastMatch = [i \in 1..MaxDetectors |-> NoTime]

NextConstructMulti ==
    \/ Return
    \/ \E detector_collection \in Collections, continuous \in BOOLEAN :
         NewMultiHotwordDetector(detector_collection, continuous)

SpecConstructMulti == InitConstructMulti /\ [][NextConstructMulti]_vars

\* C12: constructing a MultiHotwordDetector fails when the collection has
\* fewer than 2 members or holds a member that is not a HotwordDetector, and
\* leaves the previous object in place; for 2 or more HotwordDetectors it
\* succeeds and the new object holds them in the order given.
C12_MultiConstruction ==
    [][op'.name = "MultiHotwordDetector" =>
         LET c == op'.detector_collection
         IN  IF Len(c) < 2 \/ \E i \in 1..Len(c) : c[i].kind # "HotwordDetector"
             THEN result'.kind = "raise" /\ multi' = multi
             ELSE /\ result'.kind = "MultiHotwordDetector"
                  /\ multi' = result'
                  /\ Len(result'.detector_collection) = Len(c)
                  /\ \A i \in 1..Len(c) : result'.detector_collection[i] = c[i].ref]_vars

C12_Witness ==
    /\ op.name = "MultiHotwordDetector"
    /\ op.detector_collection = <<DetectorRef(2), DetectorRef(1)>>
    /\ result.kind = "MultiHotwordDetector"
    /\ result.detector_collection = <<2, 1>>

\* ---- ModelRawBackend: padding of an audio buffer (audio_processing.py) ----
MaxLen == 5
\* window_frames is int(1.5 * 16000); the model scales it down
WindowFrames == 3

BufferSamples == {0, 1, 2}
Buffers == SeqsUpTo(BufferSamples, MaxLen)

\* x[a:b] of Python, for 0 <= a and 0 <= b
Slice(x, a, b) ==
    LET hi == Min2(b, Len(x))
    IN  IF a >= hi THEN <<>> ELSE SubSeq(x, a + 1, hi)

Zeros(n) == [i \in 1..n |-> 0]

AddPaddingFrontOnly(x, length, frontBits) ==
    IF ~(Len(x) < length) THEN Raise("AssertionError")
    ELSE [kind |-> "array", value |-> Zeros(frontBits) \o x]

randomCrop(x, length, frontBits) ==
    IF ~(Len(x) > WindowFrames) THEN Raise("AssertionError")
    ELSE [kind |-> "array", value |-> Slice(x, frontBits, frontBits + length)]

addPadding(x, length, frontBits) ==
    IF ~(Len(x) < length) THEN Raise("AssertionError")
    ELSE LET bitCountToBeAdded == length - Len(x)
         IN  [kind |-> "array",
              value |-> (Zeros(frontBits) \o x) \o Zeros(bitCountToBeAdded - frontBits)]

\* for i in range(len(x)): the index i is 0-based, x[i + 1] is Python's x[i]
RECURSIVE leadingLoop(_, _, _)
leadingLoop(x, i, lastZeroBitBeforeAudio) ==
    IF i >= Len(x) THEN lastZeroBitBeforeAudio
    ELSE IF x[i + 1] = 0 THEN leadingLoop(x, i + 1, i)
    ELSE lastZeroBitBeforeAudio

\* for i in range(len(x) - 1, 1, -1)
RECURSIVE trailingLoop(_, _, _)
trailingLoop(x, i, firstZeroBitAfterAudio) ==
    IF i <= 1 THEN firstZeroBitAfterAudio
    ELSE IF x[i + 1] = 0 THEN trailingLoop(x, i - 1, i)
    ELSE firstZeroBitAfterAudio

removeExistingPadding(x) ==
    LET lastZeroBitBeforeAudio == leadingLoop(x, 0, 0)
        firstZeroBitAfterAudio == trailingLoop(x, Len(x) - 1, Len(x))
    IN  Slice(x, lastZeroBitBeforeAudio, firstZeroBitAfterAudio)

\* the values random.randint can return in the branch fixPaddingIssues takes
FrontBits(x) ==
    LET n == Len(removeExistingPadding(x))
    IN  IF n > WindowFrames THEN 0..(n - WindowFrames)
        ELSE IF n < WindowFrames THEN 0..(WindowFrames - n)
        ELSE {0}

fixPaddingIssues(x, frontBits) ==
    LET y == removeExistingPadding(x)
    IN  IF Len(y) > WindowFrames THEN randomCrop(y, WindowFrames, frontBits)
        ELSE IF Len(y) < WindowFrames THEN addPadding(y, WindowFrames, frontBits)
        ELSE [kind |-> "array", value |-> y]

RemoveExistingPadding(x) ==
    /\ op = Idle
    /\ op' = [name |-> "_removeExistingPadding", x |-> x]
    /\ result' = [kind |-> "array", value |-> removeExistingPadding(x)]
    /\ calls' = <<>>
    /\ UNCHANGED <<now, detectors, multi, lastMatch>>

FixPaddingIssues(x, frontBits) ==
    /\ op = Idle
    /\ op' = [name |-> "fixPaddingIssues", x |-> x, frontBits |-> frontBits]
    /\ result' = fixPaddingIssues(x, frontBits)
    /\ calls' = <<>>
    /\ UNCHANGED <<now, detectors, multi, lastMatch>>

InitNormalize ==
    /\ now = 0
    /\ detectors = <<>>
    /\ multi = NoObject
    /\ op = Idle
    /\ result = NoObject
    /\ calls = <<>>
    /\ lastMatch = <<>>

NextNormalize ==
    \/ Return
    \/ \E x \in Buffers : RemoveExistingPadding(x)
    \/ \E x \in Buffers : \E frontBits \in FrontBits(x) : FixPaddingIssues(x, frontBits)

SpecNormalize == InitNormalize /\ [][NextNormalize]_vars

\* C13: fixPaddingIssues returns exactly window_frames samples for every
\* buffer and every random offset.  With t the buffer after the padding
\* removal step: when t is longer than the window the output is a contiguous
\* slice of t; when it is shorter the output is t as one block between leading
\* and trailing zeros that total window_frames - len(t); a buffer of window
\* length with no zero at either edge comes back unchanged.
C13_FixPaddingIssues ==
    op.name = "fixPaddingIssues" =>
        LET t == removeExistingPadding(op.x)
        IN  /\ result.kind = "array"
            /\ Len(result.value) = WindowFrames
            /\ Len(t) > WindowFrames =>
                  \E k \in 0..(Len(t) - WindowFrames) :
                     result.value = SubSeq(t, k + 1, k + WindowFrames)
            /\ Len(t) < WindowFrames =>
                  \E k \in 0..(WindowFrames - Len(t)) :
                     /\ \A j \in 1..k : result.value[j] = 0
                     /\ \A j \in 1..Len(t) : result.value[k + j] = t[j]
                     /\ \A j \in (k + Len(t) + 1)..WindowFrames : result.value[j] = 0
            /\ (Len(op.x) = WindowFrames /\ op.x[1] # 0 /\ op.x[WindowFrames] # 0)
                  => result.value = op.x

\* a crop that does not start at the front of the trimmed buffer
C13_Witness ==
    /\ op.name = "fixPaddingIssues"
    /\ Len(removeExistingPadding(op.x)) > WindowFrames
    /\ op.frontBits > 0
    /\ result.value = SubSeq(removeExistingPadding(op.x), op.frontBits + 1, op.frontBits + WindowFrames)

\* the buffer from its first non-zero sample to its last one, empty when
\* every sample is zero
NonZeroAt(x) == {i \in 1..Len(x) : x[i] # 0}
Smallest(S) == CHOOSE i \in S : \A j \in S : i <= j
Largest(S) == CHOOSE i \in S : \A j \in S : i >= j
WithoutZeroRuns(x) ==
    IF NonZeroAt(x) = {} THEN <<>>
    ELSE SubSeq(x, Smallest(NonZeroAt(x)), Largest(NonZeroAt(x)))

\* C14: the padding removal step returns the buffer from its first non-zero
\* sample to its last non-zero sample (empty for an all-zero buffer), so its
\* result never starts or ends with a zero sample.
C14_RemovesWholeZeroRuns ==
    op.name = "_removeExistingPadding" =>
        /\ result.value = WithoutZeroRuns(op.x)
        /\ Len(result.value) > 0 =>
              result.value[1] # 0 /\ result.value[Len(result.value)] # 0

\* the positions of the call log c that hold a call of fn (on detector d)
CallsOf(c, fn) == {k \in 1..Len(c) : c[k].fn = fn}
ScoreCallsOn(c, d) == {k \in 1..Len(c) : c[k].fn = "scoreVector" /\ c[k].detector = d}

\* C15: a findBestMatch call whose audioToVector returns invokes it exactly
\* once, before any detector is scored, and then calls scoreVector exactly
\* once on every member, in registration order, on the score of that one
\* embedding, whatever the number of detectors and their scores.
C15_EmbedOnceScoreEach ==
    [][(op'.name = "findBestMatch" /\ op'.embeds) =>
          /\ Cardinality(CallsOf(calls', "audioToVector")) = 1
          /\ calls'[1].fn = "audioToVector"
          /\ Len(calls') = Len(multi.detector_collection) + 1
          /\ \A i \in 1..Len(multi.detector_collection) :
                /\ Cardinality(ScoreCallsOn(calls', multi.detector_collection[i])) = 1
                /\ calls'[i + 1].fn = "scoreVector"
                /\ calls'[i + 1].detector = multi.detector_collection[i]
                /\ calls'[i + 1].ret =
                      HotwordDetector_scoreVector(detectors[multi.detector_collection[i]],
                          op'.scores[multi.detector_collection[i]], now).ret]_vars

\* the second member is scored although the first one already qualified
\* with a score the second cannot beat
C15_Witness ==
    /\ op.name = "findBestMatch"
    /\ op.embeds
    /\ Len(calls) = Len(multi.detector_collection) + 1
    /\ op.scores = <<850, 600>>
    /\ result.kind = "tuple"
    /\ result.detector = 1
    /\ calls[3] = ScoreVectorCall(2, 600)

----------------------------------------------------------------------------
(* The detectors "ruby" and "max" and the MultiHotwordDetector over them,  *)
(* the caller scoring through either                                       *)

IndependentThresholds == <<700, 800>>

InitIndependent ==
    /\ now = 0
    /\ \E continuous \in [1..Len(Hotwords) -> BOOLEAN] :
         detectors = [i \in 1..Len(Hotwords) |->
                         HotwordDetector_init(Hotwords[i], "Resnet50_Arc_loss",
                             RefFile("resnet_50_arc", MinEmbeddings + 1),
                             IndependentThresholds[i], 2, continuous[i], 0)]
    /\ multi = MultiHotwordDetector_init([i \in 1..Len(Hotwords) |-> DetectorRef(i)],
                                         "Resnet50_Arc_loss", TRUE)
    /\ op = Idle
    /\ result = NoObject
    /\ calls = <<>>
    /\ lastMatch = [i \in 1..Len(Hotwords) |-> NoTime]

NextIndependent ==
    \/ Tick
    \/ Return
    \/ \E d \in 1..Len(detectors), score \in MultiRawScores : ScoreVector(d, score)
    \/ \E d \in 1..Len(detectors), frame \in InputFrames, unsafe \in BOOLEAN,
          embeds \in BOOLEAN :
         \E score \in BackendScores(embeds, MultiRawScores) :
            ScoreFrame(d, frame, unsafe, embeds, score)
    \/ \E frame \in InputFrames, unsafe \in BOOLEAN, embeds \in BOOLEAN :
         \E scores \in [1..Len(detectors) -> BackendScores(embeds, MultiRawScores)] :
            FindBestMatch(frame, unsafe, embeds, scores)

SpecIndependent == InitIndependent /\ [][NextIndependent]_vars

\* C16: when audioToVector fails during scoreFrame or findBestMatch, the
\* call raises that failure after the one attempt, returns no result in its
\* place, invokes no detector's scoreVector and leaves every detector's
\* last activation time as it was.
C16_EmbeddingFailurePropagates ==
    [][(op'.name \in {"scoreFrame", "findBestMatch"} /\ ~op'.embeds) =>
          /\ result' = Raise("InferenceError")
          /\ calls' = <<AudioToVectorCall>>
          /\ detectors' = detectors
          /\ lastMatch' = lastMatch]_vars

\* the failure reaches the caller of a detector that an above-threshold
\* score would have triggered
C16_Witness ==
    /\ op.name = "scoreFrame"
    /\ ~op.embeds
    /\ result.kind = "raise"
    /\ ~Cooling(detectors[op.detector], now)
    /\ detectors[op.detector].last_activation_time < now

\* every field of a detector but its timer
Configuration(self) == [self EXCEPT !.last_activation_time = NoTime]

\* C17: a scoring call on one detector never changes another detector's
\* last activation time; in findBestMatch each member's timer moves as its
\* own scoreVector moves it; and no scoring call changes a detector's
\* threshold, relaxation time, continuous flag or reference embeddings, nor
\* any field of the MultiHotwordDetector.
C17_DetectorsIndependent ==
    [][(op'.name \in {"scoreVector", "scoreFrame", "findBestMatch"}) =>
          /\ multi' = multi
          /\ Len(detectors') = Len(detectors)
          /\ \A i \in 1..Len(detectors) :
                Configuration(detectors'[i]) = Configuration(detectors[i])
          /\ op'.name \in {"scoreVector", "scoreFrame"} =>
                \A i \in 1..Len(detectors) :
                   i # op'.detector => detectors'[i] = detectors[i]
          /\ (op'.name = "findBestMatch" /\ op'.embeds) =>
                \A i \in 1..Len(detectors) :
                   detectors'[i] =
                      HotwordDetector_scoreVector(detectors[i], op'.scores[i], now).self]_vars

\* one detector has just triggered while the other keeps the timer of its
\* construction
C17_Witness ==
    /\ op.name = "scoreVector"
    /\ op.detector = 1
    /\ now > 0
    /\ detectors[1].last_activation_time = now
    /\ detectors[2].last_activation_time = 0

----------------------------------------------------------------------------
(* Resnet50_Arc_loss.scoreVector: the backend scoring an embedding against *)
(* a reference set (audio_processing.py)                                   *)

VecDim == 2
VecComponents == {0 - 1, 0, 1, 2}
RefCounts == {1, 2}

Vectors == [1..VecDim -> VecComponents]
ReferenceSets == UNION {[1..n -> Vectors] : n \in RefCounts}

\* one entry of np.matmul(embeddings, inp_vector.T)
RECURSIVE DotFrom(_, _, _)
DotFrom(u, v, k) == IF k > VecDim THEN 0 ELSE u[k] * v[k] + DotFrom(u, v, k + 1)
matmul(embeddings, inp_vector) ==
    [i \in 1..Len(embeddings) |-> DotFrom(embeddings[i], inp_vector, 1)]

\* (cosine_similarity + 1) / 2, in thousandths
Rescale(similarity) == ((similarity + 1) * ScoreOne) \div 2

RECURSIVE ArrayMaxFrom(_, _, _)
ArrayMaxFrom(a, k, best) ==
    IF k > Len(a) THEN best
    ELSE ArrayMaxFrom(a, k + 1, IF a[k] > best THEN a[k] ELSE best)
ArrayMax(a) == ArrayMaxFrom(a, 2, a[1])

Resnet50_Arc_loss_scoreVector(inp_vector, embeddings) ==
    LET cosine_similarity == matmul(embeddings, inp_vector)
        confidence_scores == [i \in 1..Len(embeddings) |-> Rescale(cosine_similarity[i])]
    IN  ArrayMax(confidence_scores)

BackendScoreVector(inp_vector, embeddings) ==
    /\ op = Idle
    /\ op' = [name |-> "Resnet50_Arc_loss.scoreVector",
              inp_vector |-> inp_vector, embeddings |-> embeddings]
    /\ result' = [kind |-> "float",
                  value |-> Resnet50_Arc_loss_scoreVector(inp_vector, embeddings)]
    /\ calls' = <<>>
    /\ UNCHANGED <<now, detectors, multi, lastMatch>>

NextBackendScore ==
    \/ Return
    \/ \E inp_vector \in Vectors, embeddings \in ReferenceSets :
         BackendScoreVector(inp_vector, embeddings)

SpecBackendScore == InitNormalize /\ [][NextBackendScore]_vars

\* C18: the backend's scoreVector returns the greatest, over the vectors of
\* the reference set, of (similarity + 1) / 2 with the input vector, and the
\* score returned lies in [0,1] for every input vector and reference set.
C18_BestExemplarInUnitRange ==
    op.name = "Resnet50_Arc_loss.scoreVector" =>
        /\ \E i \in 1..Len(op.embeddings) :
              result.value = Rescale(DotFrom(op.embeddings[i], op.inp_vector, 1))
        /\ \A i \in 1..Len(op.embeddings) :
              result.value >= Rescale(DotFrom(op.embeddings[i], op.inp_vector, 1))
        /\ 0 <= result.value /\ result.value <= ScoreOne

\* the time at which Init constructs its detectors
ConstructionTime == 0

\* C19: a freshly constructed detector starts in Cooling: with
\* continuous=true, an above-threshold scoreVector call made less than
\* relaxationTime after construction finds the timer still at construction
\* time, returns the sentinel and leaves the timer there, and scoreFrame
\* then reports no match for a threshold above the sentinel, although no
\* score above the threshold has triggered the detector before.
C19_FreshDetectorCooling ==
    [][(/\ RanScoreVector(op')
        /\ detectors[op'.detector].continuous
        /\ op'.score > detectors[op'.detector].threshold
        /\ now - ConstructionTime < detectors[op'.detector].relaxation_time) =>
          LET d == op'.detector
          IN  /\ detectors[d].last_activation_time = ConstructionTime
              /\ ScoreVectorReturned(op', result', calls') = Sentinel
              /\ detectors'[d].last_activation_time = ConstructionTime
              /\ (op'.name = "scoreFrame" /\ detectors[d].threshold > Sentinel) =>
                    /\ ~result'.match
                    /\ lastMatch'[d] = lastMatch[d]]_vars

C19_Witness ==
    /\ op.name = "scoreFrame"
    /\ op.score = 850
    /\ detectors[1].threshold = 700
    /\ detectors[1].continuous
    /\ now = 1
    /\ now - ConstructionTime < detectors[1].relaxation_time
    /\ result = [kind |-> "dict", match |-> FALSE, confidence |-> Sentinel]
    /\ lastMatch = <<NoTime>>

\* member i of a findBestMatch call is suppressed: continuous, raw score
\* above its threshold, still Cooling
Suppressed(self, raw, t) == self.continuous /\ raw > self.threshold /\ Cooling(self, t)

\* C20: findBestMatch sets the last activation time of every member whose
\* raw score strictly exceeds its own threshold and is not suppressed to the
\* time of the frame, whether or not that member is the one returned; and a
\* continuous member with an above-threshold score within relaxationTime of
\* its last activation gets the sentinel and is not returned (for a
\* threshold above the sentinel).
C20_EveryQualifierCools ==
    [][(op'.name = "findBestMatch" /\ op'.embeds) =>
          \A i \in 1..Len(detectors) :
             /\ (op'.scores[i] > detectors[i].threshold
                 /\ ~Suppressed(detectors[i], op'.scores[i], now))
                   => /\ detectors'[i].last_activation_time = now
                      /\ Cooling(detectors'[i], now)
                         \/ detectors[i].relaxation_time <= 0
             /\ Suppressed(detectors[i], op'.scores[i], now)
                   => /\ Returned(calls', i) = Sentinel
                      /\ detectors'[i].last_activation_time = detectors[i].last_activation_time
                      /\ detectors[i].threshold > Sentinel => result'.detector # i]_vars

\* max lost the ranking to ruby on this frame and its timer is set to the
\* frame's time all the same
C20_Witness ==
    /\ op.name = "findBestMatch"
    /\ op.embeds
    /\ op.scores = <<850, 850>>
    /\ detectors[1].threshold = 700 /\ detectors[2].threshold = 800
    /\ detectors[2].continuous
    /\ now > 0
    /\ result = MatchInfo(1, 850)
    /\ Returned(calls, 2) = 850
    /\ detectors[2].last_activation_time = now

----------------------------------------------------------------------------
(* VoiceRecognition.record_audio: the recording loop (voice_recognition.py) *)

\* self.duration, in seconds
Duration == 5
\* the elapsed time, in seconds, at which the loop stops whatever it hears
HardLimit == 45
LoudPeak == 200
QuietPeak == 40
PeakLimit == 5

\* most seconds one pass of the loop takes, most passes the clock does not
\* see advancing, most loud chunks one call is given
MaxStep == 2
MaxBurst == 2
MaxPeaks == 7

\* np.max(audio_data) of a chunk of int16 samples
Peaks == {0 - 5, QuietPeak, QuietPeak + 1, LoudPeak, LoudPeak + 1}

\* the locals of record_audio before the first pass of the loop
record_audio_locals(start_time) ==
    [name |-> "record_audio", start_time |-> start_time,
     peak_counter |-> 0, peak_detected |-> FALSE, recording |-> TRUE,
     peak |-> 0, burst |-> 0]

NoHardLimit(st, peak, elapsed_time) ==
    LET peak_counter == IF peak > LoudPeak THEN st.peak_counter + 1 ELSE st.peak_counter
        peak_detected == IF peak_counter > PeakLimit THEN TRUE ELSE st.peak_detected
        recording == IF elapsed_time >= Duration \/ peak_detected
                     THEN peak > QuietPeak
                     ELSE st.recording
    IN  [st EXCEPT !.peak_counter = peak_counter,
                   !.peak_detected = peak_detected,
                   !.recording = recording,
                   !.peak = peak]

\* one pass of the while loop on a chunk of the given peak, elapsed_time
\* being datetime.now() - start_time as read in that pass
record_audio_pass(st, peak, elapsed_time) ==
    LET peak_counter == IF peak > LoudPeak THEN st.peak_counter + 1 ELSE st.peak_counter
        peak_detected == IF peak_counter > PeakLimit THEN TRUE ELSE st.peak_detected
        recording == IF elapsed_time >= Duration \/ peak_detected
                     THEN peak > QuietPeak
                     ELSE st.recording
    IN  [st EXCEPT !.peak_counter = peak_counter,
                   !.peak_detected = peak_detected,
                   !.recording = IF elapsed_time >= HardLimit THEN FALSE ELSE recording,
                   !.peak = peak]

\* self.record_audio() is called
RecordAudio ==
    /\ op = Idle
    /\ now <= MaxTime
    /\ op' = record_audio_locals(now)
    /\ result' = NoObject
    /\ calls' = <<>>
    /\ UNCHANGED <<now, detectors, multi, lastMatch>>

\* one pass of the loop: the read and the rest of the pass take dt seconds
\* on the clock
ReadChunk(peak, dt) ==
    /\ op.name = "record_audio"
    /\ op.recording
    /\ dt = 0 => op.burst < MaxBurst
    /\ peak > LoudPeak => op.peak_counter < MaxPeaks
    /\ now' = now + dt
    /\ op' = [record_audio_pass(op, peak, now' - op.start_time)
                 EXCEPT !.burst = IF dt = 0 THEN op.burst + 1 ELSE 0]
    /\ UNCHANGED <<detectors, multi, result, calls, lastMatch>>

\* the loop has ended: the stream is closed, the wave file written and
\* record_audio returns
WriteFile ==
    /\ op.name = "record_audio"
    /\ ~op.recording
    /\ op' = Idle
    /\ result' = NoObject
    /\ UNCHANGED <<now, detectors, multi, calls, lastMatch>>

NextRecord ==
    \/ Tick
    \/ RecordAudio
    \/ \E peak \in Peaks, dt \in 0..MaxStep : ReadChunk(peak, dt)
    \/ WriteFile

\* chunk reads return and time advances: a pass during which the clock
\* moves is always possible and eventually happens
ClockAdvances == WF_vars(\E peak \in Peaks, dt \in 1..MaxStep : ReadChunk(peak, dt))

SpecRecord == InitNormalize /\ [][NextRecord]_vars /\ ClockAdvances

\* a step that is one pass of the loop
IsPass == op.name = "record_audio" /\ op.recording /\ op'.name = "record_audio"

\* C21: the record_audio loop always terminates, chunk reads returning and
\* time advancing: it stops at the first chunk read once 45 s have elapsed,
\* whatever the audio; before that it stops only at a chunk of peak <= 40
\* read after the duration (5 s) has elapsed or after more than 5 chunks of
\* peak above 200 have been seen, and never at a chunk of peak above 40.
C21_RecordingStops ==
    /\ [][IsPass =>
            LET elapsed == now' - op.start_time
            IN  /\ op'.peak_counter =
                      op.peak_counter + (IF op'.peak > LoudPeak THEN 1 ELSE 0)
                /\ elapsed >= HardLimit => ~op'.recording
                /\ elapsed < HardLimit =>
                      /\ ~op'.recording =>
                            /\ op'.peak <= QuietPeak
                            /\ elapsed >= Duration \/ op'.peak_counter > PeakLimit
                      /\ op'.peak > QuietPeak => op'.recording]_vars
    /\ (op.name = "record_audio") ~> (op.name = "record_audio" /\ ~op.recording)

\* the loop stopped on a quiet chunk before the duration had elapsed, more
\* than 5 loud chunks having been read
C21_Witness ==
    /\ op.name = "record_audio"
    /\ ~op.recording
    /\ now - op.start_time < Duration
    /\ op.peak_counter > PeakLimit
    /\ op.peak <= QuietPeak

====
